---------------------------- MODULE Spec2Model ----------------------------
(***************************************************************************)
(* Model of the SVE SAXPY benchmark (src/unnamed/part_000, lines 75-206):  *)
(* the kernel sve_saxpy and the timed driver main.                         *)
(*                                                                         *)
(* Single-precision values.  Every float the program handles is a multiple *)
(* of 1/2 (a = 2.5, X and Y hold integers), so a float v is represented by *)
(* the integer 2*v ("halves").  Rounding to the 24-bit significand of      *)
(* binary32 is computed by RoundF32, never assumed away: at the configured *)
(* vector size the products exceed 2^24 and do round.                      *)
(*                                                                         *)
(* A std::vector<float> is a record [size, mem]: size is size(), mem maps  *)
(* the observed addresses (offsets from data()) to their contents.  The    *)
(* offsets >= size that mem holds are guard cells: the memory directly     *)
(* after the array.                                                        *)
(***************************************************************************)
EXTENDS Integers, Sequences, FiniteSets, TLC

(* ------------------------------ bounds -------------------------------- *)
\* Longest vector handed to the kernel on its own.
MaxLen == 5
\* Guard cells observed after each array handed to the kernel.
GuardLen == 2
\* Size of the run of main whose vectors are observed whole; the five sample
\* indices 0, 1, 42, N/2, N-1 are inside the vectors from this size on.
DenseSize == 43
\* Longest pause, in whole seconds, between two reads of the clock.
MaxAdvance == 40
\* Iterations of a run that may end within the whole second in which the
\* one before ended (to bound the iteration counter).
MaxStill == 1

(* ------------------------- program constants -------------------------- *)
\* const float a = 2.5f, in halves.
a == 5
\* const size_t VECTOR_SIZE = 10000000.
VECTOR_SIZE == 10000000
\* const int TARGET_DURATION_SECONDS = 120.
TARGET_DURATION_SECONDS == 120

\* svcntw(): 32-bit lanes per vector register of the executing core.
Widths == {1, 4, 8, 16}


Min(p, q) == IF p < q THEN p ELSE q

SetMin(S) == CHOOSE m \in S : \A o \in S : m <= o

CeilDiv(p, q) == (p + q - 1) \div q

Abs(v) == IF v < 0 THEN -v ELSE v

(* --------------------------- binary32 values -------------------------- *)
\* Spacing (in halves) of the binary32 values around magnitude m halves:
\* the smallest power of two p with m < 2^24 * p.
RECURSIVE Ulp(_)
Ulp(m) == IF m < 2^24 THEN 1 ELSE 2 * Ulp(m \div 2)

\* The binary32 value nearest to h halves, ties to the even significand.
RoundF32(h) ==
    LET m == Abs(h)
        p == Ulp(m)
        q == m \div p
        r == m % p
        up == (2 * r > p) \/ (2 * r = p /\ q % 2 = 1)
        mag == IF up THEN (q + 1) * p ELSE q * p
    IN IF h < 0 THEN -mag ELSE mag

\* Exact product of two floats, in halves (one factor is a whole number).
ExactMul(u, v) == (u * v) \div 2

\* Fused multiply-add: u*v + w with a single rounding.
Fma(u, v, w) == RoundF32(ExactMul(u, v) + w)

\* Separate multiply and add: the product is rounded before the addition.
FMul(u, v) == RoundF32(ExactMul(u, v))

FAdd(u, v) == RoundF32(u + v)

\* static_cast<float>(k) of a whole number k.
ToFloat(k) == RoundF32(2 * k)

\* Value kept in the guard cells (15.5).
Canary == ToFloat(15) + 1

(* ------------------------------ vectors ------------------------------- *)
\* std::vector<float> v(n): n zeros; cells is the set of observed offsets.
NewVector(n, cells) == [size |-> n, mem |-> [ad \in cells |-> 0]]

\* Element offsets of a vector that are observed.
Elems(v) == {ad \in DOMAIN v.mem : ad < v.size}

\* Guard offsets of a vector.
Guards(v) == {ad \in DOMAIN v.mem : ad >= v.size}

(* --------------------------- SVE intrinsics --------------------------- *)
\* Variant: a predicate for whole chunks only, no partial final chunk.
svwhilelt_b32_whole(c, n, w) == [l \in 0..(w - 1) |-> c + w <= n]

\* Variant: the comparison is "<=", one lane too many.
svwhilelt_b32_le(c, n, w) == [l \in 0..(w - 1) |-> c + l <= n]

\* svwhilelt_b32(i, n): lane l is active iff i + l < n.
svwhilelt_b32(c, n, w) == [l \in 0..(w - 1) |-> c + l < n]

\* Offsets an operation governed by pg touches from base.
ActiveOffsets(pg, base) == {base + l : l \in {k \in DOMAIN pg : pg[k]}}

\* svld1_f32(pg, base): active lanes load memory, inactive lanes read zero.
\* An active lane at an unobserved offset loads a value the model does not
\* track; its result lane is stored to the same unobserved offset.
svld1_f32(pg, mem, base) ==
    [l \in DOMAIN pg |->
        IF pg[l] /\ (base + l) \in DOMAIN mem THEN mem[base + l] ELSE 0]

\* svdup_n_f32(s): every lane holds s.
svdup_n_f32(s, w) == [l \in 0..(w - 1) |-> s]

\* Variant: svmul then svadd, the product rounded before the addition.
svmad_f32_unfused(pg, op1, op2, op3) ==
    [l \in DOMAIN pg |->
        IF pg[l] THEN FAdd(FMul(op1[l], op2[l]), op3[l]) ELSE 0]

\* svmad_f32_z(pg, op1, op2, op3): op1*op2 + op3 fused, inactive lanes zero.
svmad_f32_z(pg, op1, op2, op3) ==
    [l \in DOMAIN pg |-> IF pg[l] THEN Fma(op1[l], op2[l], op3[l]) ELSE 0]

\* svst1_f32(pg, base, data): active lanes are written, the rest untouched.
svst1_f32(pg, mem, base, data) ==
    [ad \in DOMAIN mem |->
        IF (ad - base) \in DOMAIN pg /\ pg[ad - base]
        THEN data[ad - base] ELSE mem[ad]]

\* One pass of the loop body at cursor c: the memory of Y afterwards and
\* the offsets the three memory operations touched.
LoopBody(c, s, xv, yv, n, w) ==
    LET pg == svwhilelt_b32(c, n, w)
        vec_x == svld1_f32(pg, xv.mem, c)
        vec_y == svld1_f32(pg, yv.mem, c)
        result == svmad_f32_z(pg, svdup_n_f32(s, w), vec_x, vec_y)
    IN [ymem |-> svst1_f32(pg, yv.mem, c, result),
        ldx |-> ActiveOffsets(pg, c),
        ldy |-> ActiveOffsets(pg, c),
        st |-> ActiveOffsets(pg, c)]

\* Variant: the stride is svcntb(), the bytes of a vector register.
svcntb(w) == 4 * w

\* svcntw(): the 32-bit lanes of a vector register, the stride of the loop.
svcntw(w) == w

\* The loop "for (i = 0; i < n; ) { body; i += svcntw(); }" from cursor c.
\* Loop bodies whose chunk holds no observed offset are passed over in one
\* stride of several svcntw(): they touch no observed cell.
RECURSIVE RunLoop(_, _, _, _, _, _)
RunLoop(c, s, xv, yv, n, w) ==
    LET ahead == {ad \in DOMAIN yv.mem : ad >= c /\ ad < n}
    IN IF ~(c < n) \/ ahead = {} THEN yv
       ELSE LET at == c + ((SetMin(ahead) - c) \div svcntw(w)) * svcntw(w)
                body == LoopBody(at, s, xv, yv, n, w)
            IN RunLoop(at + svcntw(w), s, xv,
                       [yv EXCEPT !.mem = body.ymem], n, w)

\* One whole call sve_saxpy(s, x, y): the size check, then the loop.
sve_saxpy(s, xv, yv, w) ==
    IF xv.size # yv.size
    THEN [outcome |-> "runtime_error", y |-> yv]
    ELSE [outcome |-> "returned",
          y |-> RunLoop(0, s, xv, yv, xv.size, w)]

(* ------------------------------- state -------------------------------- *)
VARIABLES
    W,               \* svcntw() of the executing core
    x, y,            \* the vectors x and y
    kpc,             \* sve_saxpy: "entry", "loop", "done", "error"
    n, i,            \* sve_saxpy: locals n and i
    x0, y0,          \* history: x and y when sve_saxpy was entered
    steps,           \* history: loop bodies executed by this call
    ldx, ldy, st,    \* history: offsets the last loop body loaded / stored
    cover,           \* history: per offset, the loop bodies that stored to it
    pc,              \* main: position
    N,               \* main: VECTOR_SIZE of this run
    y_original,      \* main: the saved baseline
    iterations,      \* main: the iteration counter
    clock,           \* whole seconds since start_time at the last clock read
    elapsed_seconds, \* main: local elapsed_seconds
    progress,        \* output: progress lines printed
    report,          \* output: totals of the final report
    checked,         \* output: the verification lines printed so far
    calls,           \* history: kernel calls that returned
    y_prev           \* history: y as the previous iteration left it

kernelVars == <<kpc, n, i, x0, y0, steps, ldx, ldy, st, cover>>

mainVars == <<pc, N, y_original, iterations, clock, elapsed_seconds,
              progress, report, checked, calls, y_prev>>

vars == <<W, x, y, kernelVars, mainVars>>

(* ------------------------- sve_saxpy, stepwise ------------------------ *)
RampUp(len) == [ad \in 0..(len - 1) |-> ToFloat(ad)]

RampDown(len) == [ad \in 0..(len - 1) |-> ToFloat(len - ad)]

Constant(len, v) == [ad \in 0..(len - 1) |-> v]

\* Contents tried for X: 0,1,2,..; all 3; all 9999999 (the product rounds).
XInputs(len) ==
    {RampUp(len), Constant(len, ToFloat(3)), Constant(len, ToFloat(9999999))}

\* Contents tried for Y: len,..,2,1; all 1; all 2.5.
YInputs(len) == {RampDown(len), Constant(len, ToFloat(1)), Constant(len, a)}

\* A vector of the given elements followed by GuardLen guard cells.
Guarded(len, elems) ==
    [size |-> len,
     mem |-> [ad \in 0..(len + GuardLen - 1) |->
                 IF ad < len THEN elems[ad] ELSE Canary]]

MainIdle ==
    /\ pc = "idle"
    /\ N = 0
    /\ y_original = NewVector(0, {})
    /\ iterations = 0
    /\ clock = 0
    /\ elapsed_seconds = 0
    /\ progress = 0
    /\ report = <<>>
    /\ checked = <<>>
    /\ calls = 0
    /\ y_prev = NewVector(0, {})

\* A caller about to call sve_saxpy(a, x, y) with vectors of any two sizes.
Init ==
    /\ W \in Widths
    /\ \E nx \in 0..MaxLen, ny \in 0..MaxLen :
          /\ x \in {Guarded(nx, e) : e \in XInputs(nx)}
          /\ y \in {Guarded(ny, e) : e \in YInputs(ny)}
    /\ kpc = "entry"
    /\ n = 0
    /\ i = 0
    /\ x0 = x
    /\ y0 = y
    /\ steps = 0
    /\ ldx = {}
    /\ ldy = {}
    /\ st = {}
    /\ cover = [ad \in DOMAIN y.mem |-> 0]
    /\ MainIdle

\* Variant: no size check, the loop runs over x.size() elements.
Enter_unchecked ==
    /\ kpc = "entry"
    /\ kpc' = "loop"
    /\ n' = x.size
    /\ i' = 0
    /\ UNCHANGED <<W, x, y, x0, y0, steps, ldx, ldy, st, cover, mainVars>>

\* Lines 93-99: the size check; the throw leaves sve_saxpy.
Enter ==
    /\ kpc = "entry"
    /\ IF x.size # y.size
       THEN /\ kpc' = "error"
            /\ UNCHANGED <<n, i>>
       ELSE /\ kpc' = "loop"
            /\ n' = x.size
            /\ i' = 0
    /\ UNCHANGED <<W, x, y, x0, y0, steps, ldx, ldy, st, cover, mainVars>>

\* Lines 103-123: one loop body, i < n.
Step ==
    /\ kpc = "loop"
    /\ i < n
    /\ LET b == LoopBody(i, a, x, y, n, W)
       IN /\ y' = [y EXCEPT !.mem = b.ymem]
          /\ ldx' = b.ldx
          /\ ldy' = b.ldy
          /\ st' = b.st
          /\ cover' = [ad \in DOMAIN cover |->
                          IF ad \in b.st THEN cover[ad] + 1 ELSE cover[ad]]
    /\ i' = i + svcntw(W)
    /\ steps' = steps + 1
    /\ UNCHANGED <<W, x, kpc, n, x0, y0, mainVars>>

\* Line 103: the loop condition fails; sve_saxpy returns.
Exit ==
    /\ kpc = "loop"
    /\ ~(i < n)
    /\ kpc' = "done"
    /\ UNCHANGED <<W, x, y, n, i, x0, y0, steps, ldx, ldy, st, cover, mainVars>>

Next == Enter \/ Step \/ Exit

Spec == Init /\ [][Next]_vars

\* The call runs on: the thread is scheduled again and again.
FairSpec == Spec /\ WF_vars(Next)

(* -------------------------------- main -------------------------------- *)
\* Sizes of the runs of main: one observed whole, and the configured one.
DriverSizes == {DenseSize, VECTOR_SIZE}

\* size_t indices_to_check[] = {0, 1, 42, VECTOR_SIZE / 2, VECTOR_SIZE - 1}.
indices_to_check(size) == <<0, 1, 42, size \div 2, size - 1>>

\* Offsets of the vectors of main that the model observes: all of them in
\* the dense run, the ones main prints in the configured run.
Observed(size) ==
    IF size = DenseSize THEN 0..(size - 1)
    ELSE {indices_to_check(size)[k] : k \in 1..5}

\* y = y_original: std::vector copy assignment (size and elements).
Assign(dst, src) ==
    [size |-> src.size,
     mem |-> [ad \in DOMAIN dst.mem |->
                 IF ad < src.size /\ ad \in DOMAIN src.mem
                 THEN src.mem[ad] ELSE dst.mem[ad]]]

\* A product u * k too large for one machine integer, as [hi, lo] with
\* value hi * 10^6 + lo (the double arithmetic of line 194 is exact here).
WideMul(u, k) ==
    LET low == (u % 10^6) * k
        high == (u \div 10^6) * k
    IN [hi |-> high + low \div 10^6, lo |-> low % 10^6]

\* The power of ten p with t < 10^6 * p, p >= 1.
RECURSIVE DecimalUnit(_)
DecimalUnit(t) == IF t < 10^6 THEN 1 ELSE 10 * DecimalUnit(t \div 10)

\* operator<<(float) at the default precision: the value rounded to six
\* significant decimal digits (ties to even), which determines the text
\* printed.  [digits, unit] stands for digits * unit / 10.
FormatG6(h) ==
    LET t == 5 * Abs(h)
        p == DecimalUnit(t)
        q == t \div p
        r == t % p
        up == (2 * r > p) \/ (2 * r = p /\ q % 2 = 1)
        d == IF up THEN q + 1 ELSE q
    IN [neg |-> h < 0,
        digits |-> IF d = 10^6 THEN 10^5 ELSE d,
        unit |-> IF d = 10^6 THEN 10 * p ELSE p]

\* float expected = a * x[idx] + y_original[idx]: one fused operation when
\* the compiler contracts the expression, a rounded product and a rounded
\* sum when it does not.
Expected(fused, xe, ye) ==
    IF fused THEN Fma(a, xe, ye) ELSE FAdd(FMul(a, xe), ye)

\* How the build compiles the expression of line 201: contracted or not,
\* the same way in every pass of the verification loop.
Contraction ==
    IF checked = <<>> THEN BOOLEAN ELSE {checked[1].fused}

\* Whole seconds by which the clock read of an iteration exceeds the read
\* before it: none (for the first MaxStill iterations of a run), one, or a
\* long pause.  The clock keeps advancing.
Advances ==
    IF iterations < MaxStill THEN {0, 1, MaxAdvance} ELSE {1, MaxAdvance}

KernelIdle ==
    /\ kpc = "idle"
    /\ n = 0
    /\ i = 0
    /\ x0 = NewVector(0, {})
    /\ y0 = NewVector(0, {})
    /\ steps = 0
    /\ ldx = {}
    /\ ldy = {}
    /\ st = {}
    /\ cover = <<>>

\* main after the three vectors are constructed (lines 144-146).
DriverInit ==
    /\ W \in Widths
    /\ N \in DriverSizes
    /\ x = NewVector(N, Observed(N))
    /\ y = NewVector(N, Observed(N))
    /\ y_original = NewVector(N, Observed(N))
    /\ pc = "fill_x"
    /\ iterations = 0
    /\ clock = 0
    /\ elapsed_seconds = 0
    /\ progress = 0
    /\ report = <<>>
    /\ checked = <<>>
    /\ calls = 0
    /\ y_prev = y
    /\ KernelIdle

\* Line 149: std::iota(x.begin(), x.end(), 0.0f).
FillX ==
    /\ pc = "fill_x"
    /\ x' = [x EXCEPT !.mem = [ad \in DOMAIN x.mem |-> ToFloat(ad)]]
    /\ pc' = "fill_y"
    /\ UNCHANGED <<W, y, kernelVars, N, y_original, iterations, clock,
                   elapsed_seconds, progress, report, checked, calls, y_prev>>

\* Variant: the values are appended with push_back to the sized vector.
FillY_push_back ==
    /\ pc = "fill_y"
    /\ y' = [size |-> 2 * N, mem |-> y.mem]
    /\ pc' = "save"
    /\ UNCHANGED <<W, x, kernelVars, N, y_original, iterations, clock,
                   elapsed_seconds, progress, report, checked, calls, y_prev>>

\* Lines 150-152: y[i] = static_cast<float>(VECTOR_SIZE - i).
FillY ==
    /\ pc = "fill_y"
    /\ y' = [y EXCEPT !.mem = [ad \in DOMAIN y.mem |-> ToFloat(N - ad)]]
    /\ pc' = "save"
    /\ UNCHANGED <<W, x, kernelVars, N, y_original, iterations, clock,
                   elapsed_seconds, progress, report, checked, calls, y_prev>>

\* Lines 153-160: y_original = y; start_time = now(); iterations = 0.
SaveOriginal ==
    /\ pc = "save"
    /\ y_original' = Assign(y_original, y)
    /\ iterations' = 0
    /\ clock' = 0
    /\ pc' = "reset"
    /\ UNCHANGED <<W, x, y, kernelVars, N, elapsed_seconds, progress,
                   report, checked, calls, y_prev>>

\* Variant: the loop does not reset y.
Reset_skipped ==
    /\ pc = "reset"
    /\ y_prev' = y
    /\ pc' = "call"
    /\ UNCHANGED <<W, x, y, kernelVars, N, y_original, iterations, clock,
                   elapsed_seconds, progress, report, checked, calls>>

\* Variant: the assignment is written the wrong way round.
Reset_reversed ==
    /\ pc = "reset"
    /\ y_original' = Assign(y_original, y)
    /\ y_prev' = y
    /\ pc' = "call"
    /\ UNCHANGED <<W, x, y, kernelVars, N, iterations, clock,
                   elapsed_seconds, progress, report, checked, calls>>

\* Line 164: y = y_original.
Reset ==
    /\ pc = "reset"
    /\ y' = Assign(y, y_original)
    /\ y_prev' = y
    /\ pc' = "call"
    /\ UNCHANGED <<W, x, kernelVars, N, y_original, iterations, clock,
                   elapsed_seconds, progress, report, checked, calls>>

\* Line 167: sve_saxpy(a, x, y); the exception is not caught in main.
Call ==
    /\ pc = "call"
    /\ LET r == sve_saxpy(a, x, y, W)
       IN IF r.outcome = "runtime_error"
          THEN /\ pc' = "terminated"
               /\ UNCHANGED <<y, calls>>
          ELSE /\ y' = r.y
               /\ calls' = calls + 1
               /\ pc' = "count"
    /\ UNCHANGED <<W, x, kernelVars, N, y_original, iterations, clock,
                   elapsed_seconds, progress, report, checked, y_prev>>

\* Variant: the loop is left only once the target is exceeded.
EndOfIteration_gt ==
    /\ pc = "count"
    /\ iterations' = iterations + 1
    /\ \E d \in Advances : clock' = clock + d
    /\ elapsed_seconds' = clock'
    /\ progress' = IF iterations' % 10 = 0 THEN progress + 1 ELSE progress
    /\ pc' = IF elapsed_seconds' > TARGET_DURATION_SECONDS
             THEN "report" ELSE "reset"
    /\ UNCHANGED <<W, x, y, kernelVars, N, y_original, report, checked,
                   calls, y_prev>>

\* Lines 169-181: count the iteration, read the clock, print the progress
\* line every tenth iteration, leave the loop when the target is reached.
EndOfIteration ==
    /\ pc = "count"
    /\ iterations' = iterations + 1
    /\ \E d \in Advances : clock' = clock + d
    /\ elapsed_seconds' = clock'
    /\ progress' = IF iterations' % 10 = 0 THEN progress + 1 ELSE progress
    /\ pc' = IF elapsed_seconds' >= TARGET_DURATION_SECONDS
             THEN "report" ELSE "reset"
    /\ UNCHANGED <<W, x, y, kernelVars, N, y_original, report, checked,
                   calls, y_prev>>

\* Variant: one operation per element instead of two.
Report_one_flop ==
    /\ pc = "report"
    /\ \E d \in {0, 1, MaxAdvance} :
          /\ clock' = clock + d
          /\ report' = [iterations |-> iterations,
                        total_duration |-> clock',
                        flops |-> WideMul(N, iterations)]
    /\ pc' = "verify"
    /\ UNCHANGED <<W, x, y, kernelVars, N, y_original, iterations,
                   elapsed_seconds, progress, checked, calls, y_prev>>

\* Lines 188-195: end_time = now(); the totals and the GFLOPS quotient
\* (2.0 * VECTOR_SIZE * iterations) / seconds, kept as its two terms.
Report ==
    /\ pc = "report"
    /\ \E d \in {0, 1, MaxAdvance} :
          /\ clock' = clock + d
          /\ report' = [iterations |-> iterations,
                        total_duration |-> clock',
                        flops |-> WideMul(2 * N, iterations)]
    /\ pc' = "verify"
    /\ UNCHANGED <<W, x, y, kernelVars, N, y_original, iterations,
                   elapsed_seconds, progress, checked, calls, y_prev>>

\* Lines 199-203: one pass of the verification loop.
Verify ==
    /\ pc = "verify"
    /\ Len(checked) < 5
    /\ \E idx \in {indices_to_check(N)[Len(checked) + 1]}, fused \in Contraction :
          \E expected \in {Expected(fused, x.mem[idx], y_original.mem[idx])} :
             checked' = Append(checked,
                               [idx |-> idx,
                                fused |-> fused,
                                expected |-> expected,
                                got |-> y.mem[idx],
                                expected_text |-> FormatG6(expected),
                                got_text |-> FormatG6(y.mem[idx])])
    /\ UNCHANGED <<W, x, y, kernelVars, pc, N, y_original, iterations, clock,
                   elapsed_seconds, progress, report, calls, y_prev>>

\* Line 205: return 0.
Return ==
    /\ pc = "verify"
    /\ Len(checked) = 5
    /\ pc' = "done"
    /\ UNCHANGED <<W, x, y, kernelVars, N, y_original, iterations, clock,
                   elapsed_seconds, progress, report, checked, calls, y_prev>>

DriverNext ==
    \/ FillX
    \/ FillY
    \/ SaveOriginal
    \/ Reset
    \/ Call
    \/ EndOfIteration
    \/ Report
    \/ Verify
    \/ Return

DriverSpec == DriverInit /\ [][DriverNext]_vars

\* The kernel call returns (or throws): main leaves the call position.
CallReturns == pc = "call" /\ pc' \in {"count", "terminated"}

\* The steps of main other than the kernel call.
MainStep ==
    \/ FillX
    \/ FillY
    \/ SaveOriginal
    \/ Reset
    \/ EndOfIteration
    \/ Report
    \/ Verify
    \/ Return

\* main runs on: its thread is scheduled again and again, and a kernel call
\* that was entered returns.
FairDriverSpec == DriverSpec /\ WF_vars(MainStep) /\ WF_pc(CallReturns)

(* ========================= properties: sve_saxpy ====================== *)
\* a*X[idx] + Y0[idx] of the vectors the call was entered with, exact.
ExactAxpy(idx) == ExactMul(a, x0.mem[idx]) + y0.mem[idx]

\* The sample scenario: X = [0,1,2,3,4], Y = [5,4,3,2,1].
SampleScenario ==
    /\ x0.size = 5
    /\ y0.size = 5
    /\ \A idx \in 0..4 : x0.mem[idx] = 2 * idx /\ y0.mem[idx] = 2 * (5 - idx)

\* C1: for every lane count W and every equal length n, one call of
\* sve_saxpy(a, X, Y) ends with Y[idx] = a*X[idx] + Y0[idx] for every idx in
\* [0, n): Y[idx] is the binary32 value nearest to the exact a*X[idx] + Y0[idx]
\* and is that value itself whenever it is representable; with n = 0, Y is
\* unchanged; a = 2.5, X = [0,1,2,3,4], Y = [5,4,3,2,1] gives
\* [5.0, 6.5, 8.0, 9.5, 11.0].  The whole-call operator main uses agrees.
C1_SaxpyResult ==
    kpc = "done" =>
        /\ x0.size = y0.size
        /\ n = x0.size
        /\ y.size = y0.size
        /\ \A idx \in 0..(n - 1) :
              /\ y.mem[idx] = RoundF32(ExactAxpy(idx))
              /\ Abs(ExactAxpy(idx)) <= 2^24 => y.mem[idx] = ExactAxpy(idx)
        /\ n = 0 => y = y0
        /\ SampleScenario =>
              \A idx \in 0..4 : y.mem[idx] = <<10, 13, 16, 19, 22>>[idx + 1]
        /\ sve_saxpy(a, x0, y0, W) = [outcome |-> "returned", y |-> y]

\* C1 witness: the sample scenario finished on a 4-lane core, the fifth
\* element done by a partial chunk.
C1_Witness ==
    /\ kpc = "done"
    /\ SampleScenario
    /\ W = 4
    /\ steps = 2
    /\ y.mem[4] = 22

\* C2: in every step of the loop the offsets loaded from X, loaded from Y
\* and stored to Y are exactly the active lanes {i, ..., min(i+W, n) - 1} of
\* the step's cursor i; no offset >= n is read or written, and the guard
\* cells after the n-th element of X and Y keep their values.
C2_ActiveLanesOnly ==
    /\ (kpc \in {"loop", "done"} /\ steps > 0) =>
          LET c == i - W
              lanes == c..(Min(c + W, n) - 1)
          IN ldx = lanes /\ ldy = lanes /\ st = lanes
    /\ \A ad \in ldx \cup ldy \cup st : ad < n
    /\ \A ad \in Guards(x) : x.mem[ad] = Canary
    /\ \A ad \in Guards(y) : y.mem[ad] = Canary

\* C2 witness: the partial final chunk of 5 elements on a 4-lane core
\* touched offset 4 alone, and the call returned.
C2_Witness ==
    /\ kpc = "done"
    /\ W = 4
    /\ n = 5
    /\ ldx = {4}
    /\ st = {4}

\* C3: a call with len(X) # len(Y) ends in the runtime_error before any loop
\* step runs, and leaves X and Y element for element as they were; the
\* error is raised in no other call.
C3_MismatchFails ==
    /\ x0.size # y0.size =>
          /\ kpc \in {"entry", "error"}
          /\ steps = 0
          /\ x = x0
          /\ y = y0
          /\ sve_saxpy(a, x0, y0, W) = [outcome |-> "runtime_error", y |-> y0]
    /\ kpc = "error" => x0.size # y0.size

\* C3 witness: the call with 5 elements of X and 3 of Y has failed.
C3_Witness ==
    /\ kpc = "error"
    /\ x0.size = 5
    /\ y0.size = 3
    /\ y = y0

\* The cursor is W times the steps taken; a finished loop took ceil(n/W)
\* steps and stored every offset below n exactly once.
C9_Cursor ==
    /\ kpc \in {"loop", "done"} =>
          /\ i = steps * W
          /\ steps <= CeilDiv(n, W)
          /\ \A idx \in 0..(n - 1) :
                cover[idx] = IF idx < i THEN 1 ELSE 0
    /\ kpc = "done" =>
          /\ i >= n
          /\ steps = CeilDiv(n, W)
          /\ n = 0 => steps = 0

\* C9: for every lane count W and every n the loop terminates; the cursor
\* starts at 0 and grows by exactly W per step, the loop runs exactly
\* ceil(n/W) steps (none when n = 0) and ends with the cursor >= n; each
\* offset in [0, n) is covered by exactly one step.
C9_LoopTerminates == []C9_Cursor /\ <>(kpc \in {"done", "error"})

\* C9 witness: 3 elements on a 1-lane core took three steps.
C9_Witness ==
    /\ kpc = "done"
    /\ W = 1
    /\ n = 3
    /\ steps = 3
    /\ i = 3

(* =========================== properties: main ========================= *)
\* a*X + Y_original, element by element, as binary32 values.
AxpyOfBaseline ==
    [ad \in DOMAIN y.mem |->
        RoundF32(ExactMul(a, x.mem[ad]) + y_original.mem[ad])]

\* Positions of main at which the kernel call of the running iteration, or
\* of the last one, is complete.
AfterCall ==
    \/ pc \in {"count", "report", "verify", "done"}
    \/ pc = "reset" /\ calls >= 1

\* C4: Y is copied from Y_original before each kernel call, so Y after the
\* kernel call of iteration k+1 equals, element for element, Y after the
\* kernel call of iteration k: after any iteration Y = a*X + Y_original,
\* never accumulated across iterations.
C4_NoAccumulation ==
    AfterCall =>
        /\ y.mem = AxpyOfBaseline
        /\ calls >= 2 => y = y_prev

\* C4 witness: the third kernel call of the dense run is complete and left
\* y as the second did, y[42] = 2.5 * 42 + 1.
C4_Witness ==
    /\ pc = "count"
    /\ calls = 3
    /\ N = DenseSize
    /\ y = y_prev
    /\ y.mem[42] = 2 * (105 + (DenseSize - 42))

\* A step of main that keeps X once filled, Y_original once saved, and in
\* the kernel call everything of main but Y.
FrameStep ==
    /\ pc # "fill_x" => x' = x
    /\ pc \notin {"fill_x", "fill_y", "save"} => y_original' = y_original
    /\ pc = "call" =>
          UNCHANGED <<W, x, N, y_original, iterations, clock,
                      elapsed_seconds, progress, report, checked>>

\* C5: after initialization X and Y_original are never modified: the reset
\* of Y, the kernel call, the counter increment, the time check, the
\* progress print and the report leave them unchanged, and the kernel call
\* changes Y alone.
C5_Frame == [][FrameStep]_vars

\* C5 witness: main finished after at least ten iterations and a progress
\* line, with X and Y_original still the two ramps.
C5_Witness ==
    /\ pc = "done"
    /\ calls >= 10
    /\ progress >= 1
    /\ \A ad \in DOMAIN x.mem :
          x.mem[ad] = 2 * ad /\ y_original.mem[ad] = 2 * (N - ad)

\* The end-of-iteration check leaves the loop exactly when the elapsed
\* seconds it read reach the target; no earlier check had read that much.
CheckStep ==
    pc = "count" =>
        /\ pc' \in {"report", "reset"}
        /\ pc' = "report" <=> elapsed_seconds' >= TARGET_DURATION_SECONDS
        /\ elapsed_seconds < TARGET_DURATION_SECONDS

\* Once the loop is left, no reset, kernel call or count follows.
AfterLoopStep ==
    pc \in {"report", "verify", "done"} =>
        /\ pc' \in {"report", "verify", "done"}
        /\ UNCHANGED <<y, iterations, calls>>

\* C6: with main running on and the clock advancing, the loop is left: at
\* the first end-of-iteration check whose elapsed whole seconds reach
\* TARGET_DURATION_SECONDS, never at a check with fewer, and no reset or
\* kernel call starts after it.
C6_StopsAtTarget ==
    /\ <>(pc = "done")
    /\ [][CheckStep]_vars
    /\ [][AfterLoopStep]_vars

\* C6 witness: the loop was left at the check that read exactly the target,
\* after one iteration per second and MaxStill more within the first second.
C6_Witness ==
    /\ pc = "report"
    /\ elapsed_seconds = TARGET_DURATION_SECONDS
    /\ iterations = TARGET_DURATION_SECONDS + MaxStill

\* C7: at every point of main, len(X) = len(Y) = len(Y_original) = N; the
\* initialization, the assignment Y = Y_original and the kernel call keep
\* the three lengths, and the kernel's length error is never reached.
C7_Lengths ==
    /\ x.size = N
    /\ y.size = N
    /\ y_original.size = N
    /\ pc # "terminated"

\* C7 witness: the first kernel call at the configured size has returned.
C7_Witness ==
    /\ pc = "count"
    /\ calls = 1
    /\ N = VECTOR_SIZE
    /\ y.size = VECTOR_SIZE

\* C8: when main reports, the iteration counter equals the number of kernel
\* calls that completed (one increment per call, at least 1), the operation
\* total of the throughput figure is exactly 2 * N * iterations, and it is
\* divided by the elapsed time.
C8_Throughput ==
    /\ pc \in {"reset", "call", "report", "verify", "done"} => iterations = calls
    /\ pc = "count" => iterations + 1 = calls
    /\ pc \in {"report", "verify", "done"} => calls >= 1
    /\ pc \in {"verify", "done"} =>
          /\ report.iterations = calls
          /\ report.flops = WideMul(2 * N, calls)
          /\ N = VECTOR_SIZE => report.flops = [hi |-> 20 * calls, lo |-> 0]
          /\ N < 10^3 => report.flops = [hi |-> 0, lo |-> 2 * N * calls]
          /\ report.total_duration >= elapsed_seconds
          /\ elapsed_seconds >= TARGET_DURATION_SECONDS

\* C8 witness: 120 iterations at the configured size: 2.4 * 10^9 operations,
\* more than a 32-bit integer holds.
C8_Witness ==
    /\ pc = "done"
    /\ N = VECTOR_SIZE
    /\ calls = 120
    /\ report.flops = [hi |-> 2400, lo |-> 0]

=============================================================================
